---- MODULE Spec2Model ----
(***************************************************************************)
(* Model of BIDSTools' segment resolution, path templating, file           *)
(* materialization and converter dispatch                                  *)
(* (BIDSTools/BIDS_PROJECT_CONFIG/BIDS_modality_custom.py,                 *)
(* BIDSTools/convertfileformat.py, BIDSTools/ProjectConfig.py), and of the *)
(* dataset unit that registers and organizes data files                    *)
(* (bep032tools/generator/BEP032NWDataConverter.py,                        *)
(* bep032tools/generator/BEP032PatchClampNWConverter.py).                  *)
(*                                                                         *)
(* Strings are sequences of atoms.  An atom stands for a fixed run of      *)
(* characters; "_" , "/" and the extensions (".edf", ".xyz") are atoms of  *)
(* their own, so that startswith, replace, basename and splitext act on    *)
(* the sequence as the Python functions act on the characters.             *)
(***************************************************************************)
EXTENDS Integers, Sequences, FiniteSets, TLC

VARIABLES
    config,         \* the ProjectConfig values BIDSCommonModality.__init__ reads
    experiment,     \* self.experiment: attribute name -> value
    current_dir,    \* self.current_dir
    fs,             \* the file system: path -> bytes
    segment_keys,   \* insertion order of self.segment_dict
    segment_dict,   \* self.segment_dict: segment key -> bundle
    converter,      \* self.converter
    pc,             \* position in write_segment_info; where it was left, if err
    idx,            \* position of the running loop in its sequence
    err,            \* the exception that left write_segment_info, if any
    copies,         \* log of the shutil.copyfile calls that returned
    conversions,    \* log of the convert_bids_data calls
    tmp_count,      \* number of temporary metadata documents created so far
    unit,           \* a BEP032PatchClampNWData object: its attributes
    disk,           \* the files the dataset unit works on: path -> bytes, mtime
    registered,     \* log of the register_data_files calls that returned
    last,           \* the last call made from outside, and its outcome
    calls,          \* number of calls made from outside, by operation
    job             \* the locals of a convert_patchclamp2bids call

\* the state of a BIDSCommonModality run
mvars == << config, experiment, current_dir, fs, segment_keys, segment_dict,
            converter, pc, idx, err, copies, conversions, tmp_count >>

\* the state of a dataset unit and its files
uvars == << unit, disk, registered, last, calls, job >>

vars == << mvars, uvars >>

----------------------------------------------------------------------------
(* Bounds of the model *)

\* number of segment keys of the configuration's segment_list
MaxSegments == 2

----------------------------------------------------------------------------
(* Python values and strings *)

\* Python's None, kept apart from every string
None == << "<None>" >>

\* str(v) as str.format renders a value
PyStr(v) == IF v = None THEN << "None" >> ELSE v

\* bool(v) for a string or None
Truthy(v) == v # None /\ v # << >>

\* s.startswith(p)
StartsWith(s, p) == Len(s) >= Len(p) /\ SubSeq(s, 1, Len(p)) = p

\* the tail of s from position n on
Drop(s, n) == SubSeq(s, n + 1, Len(s))

RECURSIVE Replace(_, _)
\* s.replace(p, ""): every non-overlapping occurrence of p, left to right
Replace(s, p) ==
    IF s = << >> THEN << >>
    ELSE IF p # << >> /\ StartsWith(s, p) THEN Replace(Drop(s, Len(p)), p)
    ELSE << Head(s) >> \o Replace(Tail(s), p)

RECURSIVE Flatten(_)
\* the concatenation of a sequence of strings
Flatten(ss) == IF ss = << >> THEN << >> ELSE Head(ss) \o Flatten(Tail(ss))

\* A template is a sequence of parts: a literal <<"lit", string>> or a
\* replacement field <<"fld", name>>.
Lit(s) == << "lit", s >>
Fld(name) == << "fld", name >>

\* the replacement fields of a template that ctx does not supply, in order
MissingFields(template, ctx) ==
    SelectSeq(template, LAMBDA part : part[1] = "fld" /\ part[2] \notin DOMAIN ctx)

\* mutant: a replacement field ctx does not supply is rendered as ''
FormatBlank(template, ctx) ==
    [ok |-> TRUE,
     value |-> Flatten([ k \in 1..Len(template) |->
                 IF template[k][1] = "lit" THEN template[k][2]
                 ELSE IF template[k][2] \in DOMAIN ctx
                 THEN PyStr(ctx[template[k][2]]) ELSE << >> ])]

\* template.format(**ctx): [ok |-> TRUE, value |-> text], or the KeyError
\* naming the first replacement field ctx lacks
Format(template, ctx) ==
    LET missing == MissingFields(template, ctx)
    IN  IF missing # << >>
        THEN [ok |-> FALSE, value |-> missing[1][2]]
        ELSE [ok |-> TRUE,
              value |-> Flatten([ k \in 1..Len(template) |->
                          IF template[k][1] = "lit" THEN template[k][2]
                          ELSE PyStr(ctx[template[k][2]]) ])]

\* dict.update: the entries of d2 over those of d1
Update(d1, d2) ==
    [ k \in DOMAIN d1 \cup DOMAIN d2 |-> IF k \in DOMAIN d2 THEN d2[k] ELSE d1[k] ]

\* d[k] = v on a dict
Put(d, k, v) == [ x \in DOMAIN d \cup {k} |-> IF x = k THEN v ELSE d[x] ]

\* the elements of a sequence
Range(q) == { q[k] : k \in 1..Len(q) }

\* d.get(k), None by default
Get(d, k) == IF k \in DOMAIN d THEN d[k] ELSE None

----------------------------------------------------------------------------
(* os.path *)

RECURSIVE LastSep(_)
\* position of the last "/" of p, 0 if none
LastSep(p) ==
    IF p = << >> THEN 0
    ELSE IF p[Len(p)] = "/" THEN Len(p)
    ELSE LastSep(SubSeq(p, 1, Len(p) - 1))

\* os.path.basename(p)
Basename(p) == Drop(p, LastSep(p))

\* os.path.isabs(p)
IsAbs(p) == p # << >> /\ p[1] = "/"

\* os.path.join(a, b)
Join(a, b) ==
    IF IsAbs(b) THEN b
    ELSE IF a = << >> \/ a[Len(a)] = "/" THEN a \o b
    ELSE a \o << "/" >> \o b

\* the atoms that are file extensions
Extensions == { ".edf", ".xyz", ".yml", ".txt" }

\* os.path.splitext(p)[1]
SplitExt(p) ==
    LET b == Basename(p)
    IN  IF Len(b) >= 2 /\ b[Len(b)] \in Extensions THEN << b[Len(b)] >> ELSE << >>

----------------------------------------------------------------------------
(* The inputs: configurations, experiment records, files *)

\* the i-th segment key of segment_list
SegKey(n) == << "run0" \o ToString(n) >>

\* keys the resolver and the materializer write into a bundle
K_id == << "id" >>
K_raw_data_path == << "raw", "_", "data", "_", "path" >>
K_segment_id == << "segment", "_", "id" >>
K_final_path == << "final", "_", "path" >>
K_final_raw_data_path == << "final", "_", "raw", "_", "data", "_", "path" >>
K_modality == << "modality" >>

\* names the patterns are formatted with
K_field == << "field" >>
K_segment_key == << "segment", "_", "key" >>
K_segment == << "segment" >>

\* attribute names of the experiment record
A_participant_id == << "participant", "_", "id" >>
A_session_id == << "session", "_", "id" >>
SegAttr(key, field) == key \o << "_" >> \o field
F_datafile_path == << "datafile", "_", "path" >>

\* ProjectConfig.get_custom_config
DefaultCustomPattern == << Lit(<< "Missing pattern" >>) >>
\* ProjectConfig.get_raw_data_path
DefaultRawDataPathPattern ==
    << Fld(<< "chunk", "_", "key" >>), Lit(<< "_" >> \o F_datafile_path) >>
\* ProjectConfig.get_data_file_format
DefaultDataFileFormat == << Lit(<< "Missig format" >>) >>

IdentityPattern == << Fld(K_segment_key), Lit(<< "_" >>), Fld(K_field) >>
AliasPattern(type) == << Fld(<< type, "_", "key" >>), Lit(<< "_" >>), Fld(K_field) >>
RemapPattern == << Fld(K_segment_key), Lit(<< "_", "alt", "_" >>), Fld(K_field) >>
SegKeyRawPattern == << Fld(K_segment_key), Lit(<< "_" >> \o F_datafile_path) >>

\* output_filename_format values of the configurations
FormatById ==
    << Lit(<< "sub-" >>), Fld(A_participant_id), Lit(<< "_", "run-" >>),
       Fld(K_segment_id), Lit(<< "_", "eyetrack", ".edf" >>) >>
FormatInFolder ==
    << Fld(K_modality), Lit(<< "/", "sub-" >>), Fld(A_participant_id),
       Lit(<< "_" >>), Fld(<< "run" >>), Lit(<< ".xyz" >>) >>
FormatWithSession ==
    << Lit(<< "ses-" >>), Fld(A_session_id), Lit(<< "_", "run-" >>),
       Fld(K_segment_id), Lit(<< ".edf" >>) >>

SegmentList == [ n \in 1..MaxSegments |-> SegKey(n) ]

\* the values of a loaded configuration document that the handler reads:
\* the segment type, global_config and config = global_config['fields'];
\* an entry the document does not give is absent from fields
Cfg(type, fields, glob) ==
    [ segment_type |-> type, segment_list |-> SegmentList,
      fields |-> fields, global_config |-> glob ]

NoEntries == [ k \in {} |-> << >> ]
WithModality == [ k \in { K_modality } |-> << "eyetrack" >> ]

Configs ==
    { Cfg("run", ("custom_pattern" :> IdentityPattern)
                   @@ ("raw_data_path_pattern" :> SegKeyRawPattern)
                   @@ ("output_filename_format" :> FormatById), WithModality),
      Cfg("run", ("custom_pattern" :> AliasPattern("run"))
                   @@ ("raw_data_path_pattern" :> SegKeyRawPattern)
                   @@ ("output_filename_format" :> FormatInFolder), WithModality),
      Cfg("run", ("custom_pattern" :> IdentityPattern)
                   @@ ("raw_data_path_pattern" :> SegKeyRawPattern), NoEntries),
      Cfg("run", ("custom_pattern" :> RemapPattern)
                   @@ ("raw_data_path_pattern" :> SegKeyRawPattern)
                   @@ ("output_filename_format" :> FormatById), NoEntries),
      Cfg("run", ("raw_data_path_pattern" :> SegKeyRawPattern)
                   @@ ("output_filename_format" :> FormatInFolder), NoEntries),
      Cfg("run", ("custom_pattern" :> IdentityPattern)
                   @@ ("output_filename_format" :> FormatById), WithModality),
      Cfg("chunk", ("custom_pattern" :> AliasPattern("chunk"))
                   @@ ("output_filename_format" :> FormatById), NoEntries),
      Cfg("run", ("custom_pattern" :> IdentityPattern)
                   @@ ("raw_data_path_pattern" :> SegKeyRawPattern)
                   @@ ("output_filename_format" :> FormatWithSession), WithModality) }

\* raw recordings
RawFile(n, ext) == << "/", "data", "/", "rec" \o ToString(n), ext >>
GoneFile == << "/", "data", "/", "gone", ".edf" >>
Bytes(p) == << "bytes of" >> \o p

SourceFiles == { RawFile(n, e) : n \in 1..MaxSegments, e \in { ".edf", ".xyz" } }

\* the segment-scoped attributes an experiment record may hold for one segment
SegmentShapes ==
    { "edf", "xyz", "nopath", "emptypath", "nullpath", "gone",
      "noid", "nullid", "nested", "nestedid" }

IdValue(n) == << "0" \o ToString(n) >>

ShapeAttrs(n, shape) ==
    LET key  == SegKey(n)
        id   == SegAttr(key, K_id)
        path == SegAttr(key, F_datafile_path)
        edf  == RawFile(n, ".edf")
        Dict(names, val(_)) == [ a \in names |-> val(a) ]
    IN  CASE shape = "edf" ->
               Dict({id, path}, LAMBDA a : IF a = id THEN IdValue(n) ELSE edf)
          [] shape = "xyz" ->
               Dict({id, path}, LAMBDA a : IF a = id THEN IdValue(n) ELSE RawFile(n, ".xyz"))
          [] shape = "nopath" ->
               Dict({id}, LAMBDA a : IdValue(n))
          [] shape = "emptypath" ->
               Dict({id, path}, LAMBDA a : IF a = id THEN IdValue(n) ELSE << >>)
          [] shape = "nullpath" ->
               Dict({id, path}, LAMBDA a : IF a = id THEN IdValue(n) ELSE None)
          [] shape = "gone" ->
               Dict({id, path}, LAMBDA a : IF a = id THEN IdValue(n) ELSE GoneFile)
          [] shape = "noid" ->
               Dict({path}, LAMBDA a : edf)
          [] shape = "nullid" ->
               Dict({id, path}, LAMBDA a : IF a = id THEN None ELSE edf)
          [] shape = "nested" ->
               Dict({id, path, SegAttr(key, << "ref", "_" >> \o id)},
                    LAMBDA a : IF a = id THEN IdValue(n)
                               ELSE IF a = path THEN edf ELSE << "r" >>)
          [] shape = "nestedid" ->
               Dict({SegAttr(key, id), path},
                    LAMBDA a : IF a = path THEN edf ELSE IdValue(n))

\* the attributes every experiment record of the model holds; 'modality' and
\* 'run' are names that the rendering context also gets from elsewhere
FlatAttrs ==
    [ a \in { A_participant_id, K_modality, << "run" >> } |->
        IF a = A_participant_id THEN << "P1" >>
        ELSE IF a = K_modality THEN << "behaviour" >> ELSE << "all runs" >> ]

RECURSIVE MergeShapes(_, _)
MergeShapes(shapes, n) ==
    IF n = 0 THEN FlatAttrs
    ELSE Update(MergeShapes(shapes, n - 1), ShapeAttrs(n, shapes[n]))

Experiments == { MergeShapes(sh, MaxSegments) : sh \in [ 1..MaxSegments -> SegmentShapes ] }

CurrentDirs == { << "/", "bids", "/", "out" >>, << ".", "/", "output" >> }

----------------------------------------------------------------------------
(* ProjectConfig and BIDSCommonModality.__init__ *)

get_data_file_format(cfg) ==
    IF "output_filename_format" \in DOMAIN cfg.fields
    THEN cfg.fields["output_filename_format"] ELSE DefaultDataFileFormat

get_custom_config(cfg) ==
    IF "custom_pattern" \in DOMAIN cfg.fields
    THEN cfg.fields["custom_pattern"] ELSE DefaultCustomPattern

get_raw_data_path(cfg) ==
    IF "raw_data_path_pattern" \in DOMAIN cfg.fields
    THEN cfg.fields["raw_data_path_pattern"] ELSE DefaultRawDataPathPattern

\* self.segment_type, as a bundle key
segment_type(cfg) == << cfg.segment_type >>

\* self.segment_id_attr; the configurations of the model give no 'segment_id'
segment_id_attr(cfg) == << cfg.segment_type, "_", "id" >>

\* Experiment.to_dict
to_dict(exp) == exp

\* getattr(self.experiment, name, None)
getattr(exp, name) == Get(exp, name)

----------------------------------------------------------------------------
(* BIDSCommonModality.get_segment_details: one pass of its loop *)

\* the prefix f"{segment_key}_"
Prefix(key) == key \o << "_" >>

\* field_name.replace(f"{segment_key}_", "")
FieldName(name, key) == Replace(name, Prefix(key))

\* segment_fields
segment_fields(exp, key) ==
    { FieldName(name, key) :
        name \in { a \in DOMAIN to_dict(exp) : StartsWith(a, Prefix(key)) } }

\* the names custom_pattern is formatted with
PatternContext(cfg, key, field) ==
    (<< cfg.segment_type, "_", "key" >> :> key) @@ (K_field :> field)
        @@ (K_segment_key :> key)

\* the names raw_data_path_pattern is formatted with
RawPathContext(cfg, key) ==
    (<< cfg.segment_type, "_", "key" >> :> key) @@ (K_segment_key :> key)

\* 'id' in segment_data
HasId(segment_data) == K_id \in DOMAIN segment_data

\* mutant: the message names the segment type instead of the key
MissingIdMessageNamesType(key) == << "Segment ID not found for ", "run" >>

\* the text of the ValueError raised for a segment without id
MissingIdMessage(key) == << "Segment ID not found for " >> \o key

\* mutant: the mirrors get the segment key
MirrorIdAsKey(cfg, data) ==
    Put(Put(data, segment_id_attr(cfg), data[segment_type(cfg)]),
        K_segment_id, data[segment_type(cfg)])

\* segment_data[self.segment_id_attr] = segment_data['id'] and
\* segment_data['segment_id'] = segment_data['id'] (lines 108-109)
MirrorId(cfg, data) ==
    Put(Put(data, segment_id_attr(cfg), data[K_id]), K_segment_id, data[K_id])

\* mutant: the bundle of a key goes in front of the bundles stored before
InsertKeyFirst(keys, d, key) ==
    IF key \in DOMAIN d THEN keys ELSE << key >> \o keys

\* segment_dict[segment_key] = segment_data (line 115): the insertion order of
\* the dict, a key stored again keeping its place
InsertKey(keys, d, key) ==
    IF key \in DOMAIN d THEN keys ELSE Append(keys, key)

\* The outcome of one pass for segment_key: the bundle, or the exception raised.
ResolveSegment(cfg, exp, key) ==
    LET fields  == segment_fields(exp, key)
        pat(f)  == Format(get_custom_config(cfg), PatternContext(cfg, key, f))
        data1   == [ f \in fields |-> getattr(exp, pat(f).value) ]
        data2   == Put(data1, segment_type(cfg), key)
        rawname == Format(get_raw_data_path(cfg), RawPathContext(cfg, key))
        data3   == Put(data2, K_raw_data_path, getattr(exp, rawname.value))
        data4   == MirrorId(cfg, data3)
    IN  IF \E f \in fields : ~pat(f).ok
        THEN [ raised |-> << "KeyError",
                            pat(CHOOSE f \in fields : ~pat(f).ok).value >> ]
        ELSE IF ~rawname.ok
        THEN [ raised |-> << "KeyError", rawname.value >> ]
        ELSE IF HasId(data3)
        THEN [ raised |-> << >>, data |-> data4 ]
        ELSE [ raised |-> << "ValueError", MissingIdMessage(key) >> ]

----------------------------------------------------------------------------
(* BIDSCommonModality.get_segment_data_path *)

\* mutant: to_dict hands out the dict the record keeps its attributes in
AfterExportShared(exp, segment_info) == segment_info

\* the experiment record once segment_info, the dict to_dict returned, has
\* been updated (lines 137-140): to_dict exports the attributes into a dict
\* of its own, so the record keeps what it held
AfterExport(exp, segment_info) == exp

\* mutant: the experiment record is laid over the bundle
RenderContextExperimentOver(cfg, exp, bundle) ==
    Put(Update(bundle, to_dict(exp)), K_modality,
        IF K_modality \in DOMAIN cfg.global_config
        THEN cfg.global_config[K_modality] ELSE << "unknown" >>)

\* segment_info: the experiment record, the bundle over it, the modality of
\* the global configuration over both
RenderContext(cfg, exp, bundle) ==
    Put(Update(to_dict(exp), bundle), K_modality,
        IF K_modality \in DOMAIN cfg.global_config
        THEN cfg.global_config[K_modality] ELSE << "unknown" >>)

\* self.data_file_format.format(**segment_info)
RenderPath(cfg, exp, bundle) ==
    Format(get_data_file_format(cfg), RenderContext(cfg, exp, bundle))

----------------------------------------------------------------------------
(* BIDSCommonModality.write_segment_info: copy of the raw file *)

\* mutant: the test is "is not None"
HasRawDataNotNone(bundle) == Get(bundle, K_raw_data_path) # None

\* if segment_info.get('raw_data_path'):
HasRawData(bundle) == Truthy(Get(bundle, K_raw_data_path))

\* mutant: every destination gets one fixed name
DestinationFixedName(dir, bundle) == Join(dir, << "data" >>)

\* mutant: the destination takes the name of the raw file
DestinationFromRawName(dir, bundle) == Join(dir, Basename(bundle[K_raw_data_path]))

\* os.path.join(self.current_dir, os.path.basename(segment_info['final_path']))
DestinationPath(dir, bundle) == Join(dir, Basename(bundle[K_final_path]))

\* mutant: the destination is created empty, as by open(dst, 'w').write('')
CopyFileEmpty(files, src, dst) == Put(files, dst, << >>)

\* shutil.copyfile(src, dst) on an existing src: dst gets the bytes of src
CopyFile(files, src, dst) == Put(files, dst, files[src])

\* os.remove(path) on an existing path
Remove(files, path) == [ f \in DOMAIN files \ { path } |-> files[f] ]

----------------------------------------------------------------------------
(* ConvertedfSData *)

\* name of the n-th tempfile.NamedTemporaryFile(suffix='.yml')
TempYml(n) == << "/", "tmp", "/", "tmp" \o ToString(n), ".yml" >>

\* ConvertedfSData.__init__(raw_data, metadata_yml_file, path_to_store_convertfile,
\* experiment): the instance, whether a temporary document was written, or the
\* ValueError.  has_exp tells whether an experiment is given; n numbers the
\* temporary file.  made_for records the segment the call was made for.
NewConverter(raw_data, metadata_yml_file, store, has_exp, n, key) ==
    IF has_exp
    THEN [ raised |-> << >>, wrote_temp |-> TRUE,
           obj |-> [ raw_data |-> raw_data, metadata_yml_file |-> TempYml(n),
                     temp_yml_file |-> TempYml(n),
                     path_to_store_convertfile |-> store, made_for |-> key ] ]
    ELSE IF metadata_yml_file # None
    THEN IF SplitExt(metadata_yml_file) # << ".yml" >>
         THEN [ raised |-> << "ValueError", << "metadata extension" >> >> ]
         ELSE [ raised |-> << >>, wrote_temp |-> FALSE,
                obj |-> [ raw_data |-> raw_data,
                          metadata_yml_file |-> metadata_yml_file,
                          temp_yml_file |-> None,
                          path_to_store_convertfile |-> store, made_for |-> key ] ]
    ELSE [ raised |-> << "ValueError", << "experiment or metadata" >> >> ]

\* self.converter is None
NoConverter == [ none |-> TRUE ]

----------------------------------------------------------------------------
(* The state machine of one write_segment_info call *)

\* the record of a call and its arguments: no call yet
NoCall ==
    [ op |-> "none", mode |-> "", fmt |-> << >>, raised |-> << >>, placed |-> << >>,
      source |-> << >>, destination |-> << >>, exist_ok |-> FALSE, again |-> FALSE,
      metadata_yml_file |-> None, experiment |-> FALSE ]

\* no call counted yet; 'other' counts the organize_data_files calls in a mode
\* that is neither link nor copy
NoCalls ==
    [ organize |-> 0, other |-> 0, create |-> 0, construct |-> 0, convert |-> 0,
      participants |-> 0 ]

\* no convert_patchclamp2bids call is running
NoJob == [ pc |-> "none" ]

\* no dataset unit takes part in a write_segment_info run
NoUnit ==
    /\ unit = [ variant |-> "none" ]
    /\ disk = [ p \in {} |-> << >> ]
    /\ registered = << >>
    /\ last = NoCall
    /\ calls = NoCalls
    /\ job = NoJob

Init ==
    /\ config \in Configs
    /\ experiment \in Experiments
    /\ current_dir \in CurrentDirs
    /\ fs = [ p \in SourceFiles |-> Bytes(p) ]
    /\ segment_keys = << >>
    /\ segment_dict = [ k \in {} |-> << >> ]
    /\ converter = NoConverter
    /\ pc = IF config.segment_list = << >> THEN "done" ELSE "resolve"
    /\ idx = 1
    /\ err = << >>
    /\ copies = << >>
    /\ conversions = << >>
    /\ tmp_count = 0
    /\ NoUnit

\* the segment the materialization loop is at
CurrentKey == segment_keys[idx]
CurrentBundle == segment_dict[CurrentKey]

\* raise: the exception leaves write_segment_info at the current position
Raise(e) == /\ err' = e
            /\ pc' = pc

\* mutant: an exception does not end the run
RunningAfterError == pc # "done"

\* write_segment_info is still running
Running == err = << >> /\ pc # "done"

\* the loop over details.items() goes to its next pass, or ends
NextSegment ==
    IF idx < Len(segment_keys)
    THEN pc' = "render" /\ idx' = idx + 1
    ELSE pc' = "done" /\ idx' = idx

\* mutant: the materialization starts as soon as one segment is resolved
AfterResolveOnePass(cfg, n) == [ pc |-> "render", idx |-> 1 ]

\* where a pass of the loop of get_segment_details hands over: to the next
\* pass, or, the loop being over, to the return (line 117) and from there to
\* the loop of write_segment_info (line 154)
AfterResolve(cfg, n) ==
    IF n < Len(cfg.segment_list)
    THEN [ pc |-> "resolve", idx |-> n + 1 ]
    ELSE [ pc |-> "render", idx |-> 1 ]

\* get_segment_details, one pass of the loop over segment_list (lines 75-116)
Resolve ==
    /\ Running
    /\ pc = "resolve"
    /\ LET key == config.segment_list[idx]
           r   == ResolveSegment(config, experiment, key)
       IN  IF r.raised # << >>
           THEN /\ Raise(r.raised)
                /\ UNCHANGED << segment_keys, segment_dict, idx >>
           ELSE /\ segment_dict' = Put(segment_dict, key, r.data)
                /\ segment_keys' = InsertKey(segment_keys, segment_dict, key)
                /\ err' = err
                /\ pc' = AfterResolve(config, idx).pc
                /\ idx' = AfterResolve(config, idx).idx
    /\ UNCHANGED << config, experiment, current_dir, fs, converter, copies,
                    conversions, tmp_count >>
    /\ UNCHANGED uvars

\* get_segment_data_path and os.makedirs (lines 155-157)
Render ==
    /\ Running
    /\ pc = "render"
    /\ LET r == RenderPath(config, experiment, CurrentBundle)
       IN  IF r.ok
           THEN /\ segment_dict' = [ segment_dict EXCEPT ![CurrentKey] =
                                        Put(@, K_final_path, r.value) ]
                /\ pc' = "copy"
                /\ err' = err
           ELSE /\ Raise(<< "KeyError", r.value >>)
                /\ UNCHANGED segment_dict
    /\ experiment' = AfterExport(experiment,
                                 RenderContext(config, experiment, CurrentBundle))
    /\ UNCHANGED << config, current_dir, fs, segment_keys, converter,
                    idx, copies, conversions, tmp_count >>
    /\ UNCHANGED uvars

\* the copy of the raw file (lines 162-169)
Copy ==
    /\ Running
    /\ pc = "copy"
    /\ LET src == CurrentBundle[K_raw_data_path]
           dst == DestinationPath(current_dir, CurrentBundle)
       IN  IF ~HasRawData(CurrentBundle)
           THEN /\ NextSegment
                /\ UNCHANGED << fs, segment_dict, copies, err >>
           ELSE IF src \notin DOMAIN fs
           THEN /\ Raise(<< "FileNotFoundError", src >>)
                /\ UNCHANGED << fs, segment_dict, copies, idx >>
           ELSE /\ fs' = CopyFile(fs, src, dst)
                /\ segment_dict' = [ segment_dict EXCEPT ![CurrentKey] =
                                        Put(@, K_final_raw_data_path, dst) ]
                /\ copies' = Append(copies, [ segment |-> CurrentKey,
                                              src |-> src, dst |-> dst ])
                /\ pc' = "dispatch"
                /\ UNCHANGED << idx, err >>
    /\ UNCHANGED << config, experiment, current_dir, segment_keys, converter,
                    conversions, tmp_count >>
    /\ UNCHANGED uvars

\* the YAML dump of the merged record written for a segment
YamlOf(key) == << "yaml of" >> \o key

\* mutant: the extension is taken from the copy, segment_info['final_raw_data_path']
ConverterExtensionOfCopy(bundle) == SplitExt(bundle[K_final_raw_data_path])

\* ext = os.path.splitext(raw_data_path)[1], raw_data_path being
\* segment_info['raw_data_path'] (lines 204, 208)
ConverterExtension(bundle) == SplitExt(bundle[K_raw_data_path])

\* create_converter and the test of self.converter (lines 171-172, 204-220)
Dispatch ==
    /\ Running
    /\ pc = "dispatch"
    /\ LET ext == ConverterExtension(CurrentBundle)
           new == NewConverter(CurrentBundle[K_final_raw_data_path], None,
                               current_dir, TRUE, tmp_count + 1, CurrentKey)
       IN  IF ext = << ".edf" >>
           THEN /\ converter' = new.obj
                /\ fs' = Put(fs, new.obj.temp_yml_file, YamlOf(CurrentKey))
                /\ tmp_count' = tmp_count + 1
                /\ pc' = "convert"
                /\ idx' = idx
           ELSE /\ UNCHANGED << converter, fs, tmp_count >>
                /\ IF converter = NoConverter
                   THEN NextSegment
                   ELSE pc' = "convert" /\ idx' = idx
    /\ UNCHANGED << config, experiment, current_dir, segment_keys, segment_dict,
                    err, copies, conversions >>
    /\ UNCHANGED uvars

\* mutant: the metadata document in use is removed, whoever wrote it
DocumentInUse(conv) == conv.metadata_yml_file

\* the document convert_bids_data removes at its end: self._temp_yml_file,
\* None when the constructor wrote none (lines 74-75)
DocumentToRemove(conv) == conv.temp_yml_file

\* the file names edf2bids may leave in its output directory
OutputNames == { << "physio", ".tsv" >> } \cup { Basename(c.dst) : c \in Range(copies) }

\* shutil.move of the produced files into path_to_store_convertfile
MoveOutputs(files, store, names) ==
    [ f \in DOMAIN files \cup { Join(store, n) : n \in names } |->
        IF f \in { Join(store, n) : n \in names } THEN << "converted" >> ELSE files[f] ]

\* self.converter.convert_bids_data() (line 183; convertfileformat.py 66-75).
\* edf2bids is external: it returns having produced some files, or it raises.
Convert ==
    /\ Running
    /\ pc = "convert"
    /\ \E raises \in BOOLEAN, names \in { {} } \cup { { n } : n \in OutputNames } :
         LET moved == MoveOutputs(fs, converter.path_to_store_convertfile, names)
             temp  == DocumentToRemove(converter)
         IN  /\ conversions' = Append(conversions,
                    [ segment |-> CurrentKey, converter |-> converter,
                      returned |-> ~raises /\ (temp = None \/ temp \in DOMAIN moved) ])
             /\ IF raises
                THEN /\ fs' = moved
                     /\ Raise(<< "ConversionError", converter.raw_data >>)
                     /\ idx' = idx
                ELSE IF temp = None
                THEN /\ fs' = moved
                     /\ NextSegment
                     /\ err' = err
                ELSE IF temp \in DOMAIN moved
                THEN /\ fs' = Remove(moved, temp)
                     /\ NextSegment
                     /\ err' = err
                ELSE /\ fs' = moved
                     /\ Raise(<< "FileNotFoundError", temp >>)
                     /\ idx' = idx
    /\ UNCHANGED << config, experiment, current_dir, segment_keys, segment_dict,
                    converter, copies, tmp_count >>
    /\ UNCHANGED uvars

Next == Resolve \/ Render \/ Copy \/ Dispatch \/ Convert

Spec == Init /\ [][Next]_vars

----------------------------------------------------------------------------
(* Properties *)

\* the file system before write_segment_info
InitialFiles == [ p \in SourceFiles |-> Bytes(p) ]

\* the n-th pass of the loop of get_segment_details has been executed
ResolvePassDone(n) ==
    pc # "resolve" \/ idx > n \/ (idx = n /\ err # << >>)

\* the bundle of key is built (both patterns format) and holds no 'id' field
BundleLacksId(key) ==
    /\ Format(get_raw_data_path(config), RawPathContext(config, key)).ok
    /\ \A a \in DOMAIN experiment :
         StartsWith(a, Prefix(key)) =>
           /\ Format(get_custom_config(config),
                     PatternContext(config, key, FieldName(a, key))).ok
           /\ FieldName(a, key) # K_id

\* C1: when the bundle of a segment key ends up without 'id', resolution fails
\* with the error naming that key, the resolution stops at that key (no later
\* key gets a bundle), and no file is copied or converted for that key or any
\* key after it.
C1_MissingIdAborts ==
    \A n \in 1..Len(config.segment_list) :
      LET key == config.segment_list[n]
      IN  (ResolvePassDone(n) /\ BundleLacksId(key)) =>
            /\ err = << "ValueError", << "Segment ID not found for " >> \o key >>
            /\ pc = "resolve" /\ idx = n
            /\ \A m \in n..Len(config.segment_list) :
                 LET later == config.segment_list[m]
                 IN  /\ later \notin DOMAIN segment_dict
                     /\ \A c \in Range(copies) : c.segment # later
                     /\ \A c \in Range(conversions) : c.segment # later
            /\ fs = InitialFiles

\* a run that fails on the second segment key for want of an id
C1_Witness ==
    /\ pc = "resolve" /\ idx = 2 /\ err # << >> /\ err[1] = "ValueError"
    /\ BundleLacksId(config.segment_list[2])
    /\ config.segment_list[1] \in DOMAIN segment_dict

\* get_segment_details has returned its mapping
Resolved == pc # "resolve"

\* C2: every bundle get_segment_details returns carries a non-null
\* 'segment_id', and so does every bundle a file is copied for.
C2_SegmentIdNotNull ==
    /\ Resolved => \A k \in DOMAIN segment_dict : segment_dict[k][K_segment_id] # None
    /\ \A c \in Range(copies) : segment_dict[c.segment][K_segment_id] # None

\* keys of a bundle that the resolver and the materializer add themselves
ResolverKeys ==
    { segment_type(config), K_raw_data_path, segment_id_attr(config), K_segment_id,
      K_final_path, K_final_raw_data_path }

\* the attributes of the experiment named key + "_" + f, as f -> value
PrefixedAttrs(key) ==
    LET names == { a \in DOMAIN experiment : StartsWith(a, Prefix(key)) }
    IN  [ f \in { Drop(a, Len(Prefix(key))) : a \in names } |->
            experiment[Prefix(key) \o f] ]

\* C3: under the identity pattern the data fields of the bundle of s are
\* exactly the names f with an attribute s_f (the prefix removed once, the
\* rest of the name kept), each with that attribute's value.
C3_FieldsArePrefixStripped ==
    (Resolved /\ get_custom_config(config) = IdentityPattern) =>
      \A s \in DOMAIN segment_dict :
        LET want == PrefixedAttrs(s)
            got  == segment_dict[s]
        IN  /\ DOMAIN got \ ResolverKeys = DOMAIN want \ ResolverKeys
            /\ \A f \in DOMAIN want \ ResolverKeys : got[f] = want[f]

\* the raw file of the current segment has an extension without converter
UnknownExtension ==
    /\ HasRawData(CurrentBundle)
    /\ SplitExt(CurrentBundle[K_raw_data_path]) # << ".edf" >>

\* C4: the dispatch of a segment whose raw file has no registered converter
\* leaves self.converter None, invokes no conversion, raises nothing and
\* hands over to the next segment.
C4_UnknownExtensionNoConverter ==
    [][ (Running /\ pc = "dispatch" /\ UnknownExtension) =>
          /\ converter' = NoConverter
          /\ pc' # "convert"
          /\ err' = << >>
          /\ conversions' = conversions ]_vars

\* C5: every convert_bids_data call is made on the converter created in the
\* same pass, for the segment being processed, with its final_raw_data_path.
C5_ConverterOfCurrentSegment ==
    \A c \in Range(conversions) :
      /\ c.converter.made_for = c.segment
      /\ c.converter.raw_data = segment_dict[c.segment][K_final_raw_data_path]

\* C6: once convert_bids_data has finished, by return or by exception, the
\* temporary metadata document of its converter no longer exists.
C6_TempDocumentReleased ==
    \A c \in Range(conversions) :
      c.converter.temp_yml_file # None => c.converter.temp_yml_file \notin DOMAIN fs

\* the destination of the copy of the current segment, as the claims name it
CurrentDestination == Join(current_dir, Basename(CurrentBundle[K_final_path]))

\* a step of write_segment_info that copies the raw file of the current segment
CopyStep == Running /\ pc = "copy" /\ pc' = "dispatch"

\* C7: when the raw file of a segment has been copied, the file at
\* current_dir/basename(final_path) holds exactly the bytes the source holds.
C7_CopyKeepsBytes ==
    [][ CopyStep =>
          /\ CurrentDestination \in DOMAIN fs'
          /\ fs'[CurrentDestination] = fs[CurrentBundle[K_raw_data_path]]
          /\ fs'[CurrentBundle[K_raw_data_path]] = fs[CurrentBundle[K_raw_data_path]] ]_vars

\* the raw file of a segment has just been copied
C7_Witness ==
    /\ pc = "dispatch"
    /\ CurrentDestination \in DOMAIN fs
    /\ fs[CurrentDestination] = Bytes(CurrentBundle[K_raw_data_path])

\* C8 as stated: the raw file is copied to current_dir/basename(final_path) and
\* the bundle records, under 'final_raw_data_path', the absolute path of it.
C8_RecordsAbsolutePath ==
    pc = "dispatch" =>
      /\ CurrentDestination \in DOMAIN fs
      /\ CurrentBundle[K_final_raw_data_path] = CurrentDestination
      /\ IsAbs(CurrentBundle[K_final_raw_data_path])

\* C8, amended: the raw file is copied to current_dir/basename(final_path), the
\* name coming from the rendered path and not from the raw file, and the bundle
\* records under 'final_raw_data_path' that joined path, which is absolute
\* exactly when current_dir is.
C8_RecordsDestinationPath ==
    pc = "dispatch" =>
      /\ CurrentDestination \in DOMAIN fs
      /\ copies[Len(copies)] = [ segment |-> CurrentKey,
                                 src |-> CurrentBundle[K_raw_data_path],
                                 dst |-> CurrentDestination ]
      /\ Basename(copies[Len(copies)].dst) = Basename(CurrentBundle[K_final_path])
      /\ CurrentBundle[K_final_raw_data_path] = CurrentDestination
      /\ IsAbs(CurrentBundle[K_final_raw_data_path]) <=> IsAbs(current_dir)

\* a copy into a relative current_dir, under a name that is not the raw file's
C8_Witness ==
    /\ pc = "dispatch"
    /\ ~IsAbs(current_dir)
    /\ CurrentBundle[K_final_raw_data_path] \in DOMAIN fs
    /\ Basename(CurrentBundle[K_final_raw_data_path])
         # Basename(CurrentBundle[K_raw_data_path])

\* the pass of the loop of write_segment_info for the n-th bundle has ended
\* without raising
PassDone(n) ==
    /\ pc \in { "render", "copy", "dispatch", "convert", "done" }
    /\ n <= Len(segment_keys)
    /\ idx > n \/ pc = "done"

\* a file was copied for the segment
Copied(key) == \E c \in Range(copies) : c.segment = key

\* a conversion was invoked while the segment was processed
ConvertedFor(key) == \E c \in Range(conversions) : c.segment = key

\* C9 as stated: a file is copied for a segment if and only if its
\* raw_data_path is present and not None.
C9_CopyIffPathNotNull ==
    \A n \in 1..Len(segment_keys) :
      PassDone(n) =>
        (Copied(segment_keys[n]) <=>
           (K_raw_data_path \in DOMAIN segment_dict[segment_keys[n]]
              /\ segment_dict[segment_keys[n]][K_raw_data_path] # None))

\* C9, amended: a file is copied for a segment if and only if its
\* raw_data_path is present, not None and not the empty string; a segment
\* without such a path gets no file and no conversion, raises nothing at the
\* copy, and is in the mapping get_segment_details returned.
C9_CopyIffPathTruthy ==
    /\ \A n \in 1..Len(segment_keys) :
         LET key  == segment_keys[n]
             path == Get(segment_dict[key], K_raw_data_path)
         IN  /\ PassDone(n) => (Copied(key) <=> (path # None /\ path # << >>))
             /\ (path = None \/ path = << >>) =>
                  /\ ~Copied(key)
                  /\ ~ConvertedFor(key)
                  /\ ~(pc \in { "dispatch", "convert" } /\ idx = n)
                  /\ ~(pc = "copy" /\ idx = n /\ err # << >>)
    /\ \A n \in 1..Len(config.segment_list) :
         (Resolved /\ err = << >>) => config.segment_list[n] \in DOMAIN segment_dict

\* a run that went past a segment whose raw_data_path is the empty string,
\* and past one whose raw_data_path is None, and copied a file for another
C9_Witness ==
    /\ pc = "done"
    /\ \E n \in 1..Len(segment_keys) :
         segment_dict[segment_keys[n]][K_raw_data_path] \in { None, << >> }
    /\ \E n \in 1..Len(segment_keys) : Copied(segment_keys[n])

\* the places of the copies made for two different segments, in copy order
CopyPairs ==
    { pq \in (1..Len(copies)) \X (1..Len(copies)) :
        pq[1] < pq[2] /\ copies[pq[1]].segment # copies[pq[2]].segment }

\* C10 as stated: two segments with id and raw data path end with two distinct
\* files, whatever the output_filename_format.
C10_TwoFilesAnyFormat ==
    \A pq \in CopyPairs : copies[pq[1]].dst # copies[pq[2]].dst

\* the rendered final_path of the two segments differ in their basename
DistinctNames(k1, k2) ==
    Basename(segment_dict[k1][K_final_path]) # Basename(segment_dict[k2][K_final_path])

\* C10, amended: when the rendered final paths of the two segments have
\* different basenames, two distinct files exist in the output directory, one
\* per segment, and the copy made for the later segment leaves the file of the
\* earlier one as it was.
C10_TwoFilesDistinctNames ==
    /\ [](\A pq \in CopyPairs :
            DistinctNames(copies[pq[1]].segment, copies[pq[2]].segment) =>
              /\ copies[pq[1]].dst # copies[pq[2]].dst
              /\ { copies[pq[1]].dst, copies[pq[2]].dst } \subseteq DOMAIN fs
              /\ Basename(copies[pq[1]].dst)
                   = Basename(segment_dict[copies[pq[1]].segment][K_final_path])
              /\ Basename(copies[pq[2]].dst)
                   = Basename(segment_dict[copies[pq[2]].segment][K_final_path]))
    /\ [][ CopyStep =>
             \A c \in Range(copies) :
               DistinctNames(c.segment, CurrentKey) =>
                 (c.dst \in DOMAIN fs' /\ fs'[c.dst] = fs[c.dst]) ]_vars

\* two segments copied under different names, both files in place at the end
C10_Witness ==
    /\ pc = "done"
    /\ \E pq \in CopyPairs :
         /\ DistinctNames(copies[pq[1]].segment, copies[pq[2]].segment)
         /\ fs[copies[pq[1]].dst] = Bytes(copies[pq[1]].src)
         /\ fs[copies[pq[2]].dst] = Bytes(copies[pq[2]].src)

\* a step of create_converter that builds a new ConvertedfSData instance
CreatesConverter ==
    /\ Running /\ pc = "dispatch"
    /\ converter' # converter
    /\ converter' # NoConverter
    /\ tmp_count' = tmp_count + 1

\* C11 as stated: create_converter builds the EDF converter for a bundle
\* exactly when the bundle's final_raw_data_path ends in '.edf'.
C11_ConverterByFinalPath ==
    [][ (Running /\ pc = "dispatch") =>
          (CreatesConverter <=>
             SplitExt(CurrentBundle[K_final_raw_data_path]) = << ".edf" >>) ]_vars

\* C11, amended: create_converter builds a new EDF converter for a bundle
\* exactly when the bundle's raw_data_path, the source file, ends in '.edf',
\* whatever the extension of final_raw_data_path; the converter it builds is
\* given final_raw_data_path as the file to convert.
C11_ConverterByRawPath ==
    [][ (Running /\ pc = "dispatch") =>
          /\ CreatesConverter <=>
                SplitExt(CurrentBundle[K_raw_data_path]) = << ".edf" >>
          /\ CreatesConverter =>
                /\ converter'.raw_data = CurrentBundle[K_final_raw_data_path]
                /\ converter'.made_for = CurrentKey ]_vars

\* a converter built for a raw '.edf' file whose copy does not end in '.edf'
C11_Witness ==
    /\ pc = "convert"
    /\ converter # NoConverter
    /\ converter.made_for = CurrentKey
    /\ SplitExt(CurrentBundle[K_raw_data_path]) = << ".edf" >>
    /\ SplitExt(CurrentBundle[K_final_raw_data_path]) # << ".edf" >>

\* the value the rendering context must hold for key k of the current bundle
ContextValue(k) ==
    IF k = K_modality
    THEN IF K_modality \in DOMAIN config.global_config
         THEN config.global_config[K_modality] ELSE << "unknown" >>
    ELSE IF k \in DOMAIN CurrentBundle THEN CurrentBundle[k] ELSE experiment[k]

\* the context the rendering of the current bundle must use
ExpectedContext ==
    [ k \in DOMAIN experiment \cup DOMAIN CurrentBundle \cup { K_modality } |->
        ContextValue(k) ]

\* C12: the context final_path is rendered from holds, for every key, the
\* modality of the global configuration (or 'unknown') under 'modality',
\* otherwise the bundle's value when the bundle has the key, otherwise the
\* experiment record's value; final_path is the format filled from it.
C12_ContextPrecedence ==
    [][ (Running /\ pc = "render") =>
          /\ RenderContext(config, experiment, CurrentBundle) = ExpectedContext
          /\ pc' = "copy" =>
                segment_dict'[CurrentKey][K_final_path]
                  = Format(get_data_file_format(config), ExpectedContext).value ]_vars

\* a final_path rendered from a format that names 'modality' and a key held,
\* with different values, by both the bundle and the experiment record
C12_Witness ==
    /\ pc = "copy"
    /\ get_data_file_format(config) = FormatInFolder
    /\ { K_modality, << "run" >> } \subseteq DOMAIN experiment
    /\ CurrentBundle[<< "run" >>] # experiment[<< "run" >>]
    /\ ContextValue(K_modality) # experiment[K_modality]
    /\ CurrentBundle[K_final_path]
         = Flatten(<< ContextValue(K_modality), << "/", "sub-" >>,
                      experiment[A_participant_id], << "_" >>, CurrentKey, << ".xyz" >> >>)

\* the placeholders of data_file_format that neither the experiment record,
\* nor the current bundle, nor the injected modality supplies
Unsupplied ==
    LET fmt == get_data_file_format(config)
        supplied == DOMAIN experiment \cup DOMAIN CurrentBundle \cup { K_modality }
    IN  { fmt[k][2] : k \in { j \in 1..Len(fmt) :
                                 fmt[j][1] = "fld" /\ fmt[j][2] \notin supplied } }

\* C13: when data_file_format names a placeholder that neither the experiment
\* record, nor the bundle, nor the injected modality supplies, the rendering
\* fails with a KeyError naming such a field and the bundle gets no
\* 'final_path'; a 'final_path' is produced only when no placeholder is
\* missing, so none is ever rendered as an empty string.
C13_MissingFieldRaises ==
    [][ (Running /\ pc = "render") =>
          IF Unsupplied # {}
          THEN /\ err' \in { << "KeyError", f >> : f \in Unsupplied }
               /\ pc' = "render"
               /\ segment_dict' = segment_dict
               /\ K_final_path \notin DOMAIN segment_dict'[CurrentKey]
               /\ fs' = fs /\ copies' = copies
          ELSE /\ err' = << >>
               /\ K_final_path \in DOMAIN segment_dict'[CurrentKey] ]_vars

\* a rendering that failed on the placeholder 'session_id'
C13_Witness ==
    /\ pc = "render"
    /\ err = << "KeyError", A_session_id >>
    /\ A_session_id \in Unsupplied
    /\ K_final_path \notin DOMAIN CurrentBundle

\* the copy or the conversion of the segment at idx has raised
MaterializationFailed == err # << >> /\ pc \in { "copy", "convert" }

\* C14: when the copy or the conversion of the N-th segment raises, the error
\* leaves write_segment_info (nothing of it runs afterwards), the files copied
\* for the segments before N are still on disk, and no segment after N has
\* been rendered, copied or converted.
C14_FailureStopsRun ==
    /\ [](MaterializationFailed =>
            /\ err[1] \in { "FileNotFoundError", "ConversionError" }
            /\ \A c \in Range(copies) :
                 /\ c.dst \in DOMAIN fs
                 /\ \E n \in 1..idx : segment_keys[n] = c.segment
            /\ \A m \in (idx + 1)..Len(segment_keys) :
                 /\ ~Copied(segment_keys[m])
                 /\ ~ConvertedFor(segment_keys[m])
                 /\ K_final_path \notin DOMAIN segment_dict[segment_keys[m]])
    /\ [][ err = << >> ]_vars

\* the copy of the second segment raised after the first segment was copied
\* and converted
C14_Witness ==
    /\ MaterializationFailed
    /\ pc = "copy" /\ idx = 2
    /\ Copied(segment_keys[1]) /\ ConvertedFor(segment_keys[1])
    /\ copies[1].dst \in DOMAIN fs
    /\ ~Copied(segment_keys[2])

\* the conversion of the first segment raised and a later segment is untouched
C14_WitnessLater ==
    /\ MaterializationFailed
    /\ pc = "convert" /\ idx = 1 /\ Len(segment_keys) > 1
    /\ HasRawData(segment_dict[segment_keys[2]])
    /\ ~Copied(segment_keys[2])

----------------------------------------------------------------------------
(* The dataset unit BEP032PatchClampNWData: inputs *)

\* number of register_data_files calls that return, in one history
MaxRegister == 2
\* number of files given to one register_data_files call
MaxFiles == 2
\* number of organize_data_files calls in one history
MaxOrganize == 2
\* number of direct create_file calls in one history
MaxCreate == 2

\* the two classes named BEP032PatchClampNWData: the one of
\* BEP032NWDataConverter.py and the one of BEP032PatchClampNWConverter.py
Variants == { "NWData", "PatchClamp" }

\* the atoms that pathlib takes as the suffix of a file name
DataSuffixes == { ".abf", ".nwb", ".nix", ".txt" }

\* Path(p).suffix
Suffix(p) ==
    IF Len(Basename(p)) >= 2 /\ p[Len(p)] \in DataSuffixes THEN << p[Len(p)] >> ELSE << >>

\* the recordings on disk before the first call: the first two have the same
\* size and modification time and different bytes, the third has the bytes
\* of the first and another modification time
Recording(n) == << "/", "raw", "/", "rec" \o ToString(n), ".abf" >>
Notes == << "/", "raw", "/", "notes", ".txt" >>
Recordings == { Recording(1), Recording(2), Recording(3) }

\* a directory, as an entry of the disk
Dir == [ bytes |-> << "<dir>" >>, mtime |-> 0 ]

\* the root given to the basedir setter, which exists, and one that does not
BidsRoot == << "/", "bids" >>
NoRoot == << "/", "nowhere" >>

InitialDisk ==
    [ p \in Recordings \cup { Notes, << "/", "raw" >>, BidsRoot } |->
        IF p \notin Recordings \cup { Notes } THEN Dir
        ELSE IF p = Recording(2) THEN [ bytes |-> << "b", "a" >>, mtime |-> 1 ]
        ELSE IF p = Recording(3) THEN [ bytes |-> << "a", "b" >>, mtime |-> 2 ]
        ELSE [ bytes |-> << "a", "b" >>, mtime |-> 1 ] ]

\* the modification times a file written by create_file may get
Stamps == { 1, 2 }

\* the time of the organize_data_files calls, after the recordings were made
Later == 2

\* the file lists given to register_data_files: n recordings, the n-th
\* first, or the notes alone
FileLists ==
    { [ k \in 1..n |-> Recording(((n - k) % 3) + 1) ] : n \in 1..MaxFiles }
      \cup { << Notes >> }

Tasks == { None, << "rest" >> }
Runs == { None, << "01" >> }

Modes == { "copy", "link", "move", "convert" }

\* a mode that create_file does not know
BadMode == "symlink"
OutputFormats == { << "nwb" >>, << "nix" >> }

----------------------------------------------------------------------------
(* The dataset unit: register_data_files, basedir, directory structure *)

\* the object after BEP032PatchClampNWData(sub_id, ses_id); the attributes
\* are set by BEP032Data.__init__, which gets ephys_type='ice' from the class
\* of BEP032NWDataConverter.py
NewUnit(variant) ==
    [ variant |-> variant, sub_id |-> << "m01" >>, ses_id |-> << "d1" >>,
      modality |-> << "ephys" >>,
      ephys_type |-> IF variant = "NWData" THEN "ice" ELSE "ece",
      basedir |-> None, filename_stem |-> None,
      keys |-> << >>, data |-> [ k \in {} |-> << >> ] ]

\* DATA_EXTENSIONS, imported from bep032tools.rulesStructured: the formats of
\* the standard and the format convert_patchclamp2bids registers
DATA_EXTENSIONS == { << ".nix" >>, << ".nwb" >>, << ".abf" >> }

\* PATCHCLAMP_DATA_EXTENSIONS of BEP032PatchClampNWConverter.py
PATCHCLAMP_DATA_EXTENSIONS == { << ".abf" >> }

\* the suffixes register_data_files accepts
AcceptedSuffixes(variant) ==
    IF variant = "NWData" THEN DATA_EXTENSIONS ELSE PATCHCLAMP_DATA_EXTENSIONS

\* mutant: the run part comes first
KeyOfRunFirst(task, run) ==
    LET r == IF run # None THEN << "run-" >> \o run ELSE << >>
    IN  IF task # None
        THEN r \o (IF r # << >> THEN << "_" >> ELSE << >>) \o << "task-" >> \o task
        ELSE r

\* the composite key of register_data_files
KeyOf(task, run) ==
    LET k == IF task # None THEN << "task-" >> \o task ELSE << >>
    IN  IF run # None
        THEN k \o (IF k # << >> THEN << "_" >> ELSE << >>) \o << "run-" >> \o run
        ELSE k

\* register_data_files(*files, task=task, run=run), without autoconvert
RegisterFiles(u, files, task, run) ==
    LET key == KeyOf(task, run)
    IN  IF \E k \in 1..Len(files) : Suffix(files[k]) \notin AcceptedSuffixes(u.variant)
        THEN [ raised |-> << "ValueError", "Wrong file format" >>, unit |-> u ]
        ELSE IF key \notin DOMAIN u.data
        THEN [ raised |-> << >>,
               unit |-> [ u EXCEPT !.keys = Append(@, key),
                                   !.data = Put(@, key, files) ] ]
        ELSE [ raised |-> << >>,
               unit |-> [ u EXCEPT !.data = Put(@, key, @[key] \o files) ] ]

\* get_data_folder(mode='absolute') of a unit whose basedir is set
get_data_folder(u) ==
    IF u.ephys_type = "ece"
    THEN Join(u.basedir, Join(Join(<< "sub-" >> \o u.sub_id, << "ses-" >> \o u.ses_id),
                              u.modality))
    ELSE Join(u.basedir, Join(<< "sub-" >> \o u.sub_id, u.modality))

\* the stem generate_directory_structure stores
StemOf(u) ==
    IF u.ephys_type = "ece"
    THEN << "sub-" >> \o u.sub_id \o << "_", "ses-" >> \o u.ses_id
    ELSE << "sub-" >> \o u.sub_id

----------------------------------------------------------------------------
(* create_file and convert_file *)

\* the directory a path lies in
Parent(p) == SubSeq(p, 1, LastSep(p) - 1)

\* p is a regular file of d
IsFile(d, p) == p \in DOMAIN d /\ d[p] # Dir

\* a call that returned, and a call that raised, with the disk it leaves
Returned(d) == [ disk |-> d, raised |-> << >> ]
Raised(d, kind, what) == [ disk |-> d, raised |-> << kind, what >> ]

\* filecmp.cmp(f1, f2, shallow=True): equal os.stat signatures (size and
\* modification time) are taken as equality, otherwise the bytes decide
Cmp(f1, f2) ==
    \/ (Len(f1.bytes) = Len(f2.bytes) /\ f1.mtime = f2.mtime)
    \/ f1.bytes = f2.bytes

\* the mode branches shared by both create_file functions: shutil.copy,
\* os.link, shutil.move, or the ValueError; now is the time of the call
Transfer(d, source, destination, mode, now) ==
    IF mode \notin { "copy", "link", "move" }
    THEN Raised(d, "ValueError", "Invalid file creation mode")
    ELSE IF ~IsFile(d, source) \/ Parent(destination) \notin DOMAIN d
    THEN Raised(d, "FileNotFoundError", "source")
    ELSE IF mode = "copy"
    THEN Returned(Put(d, destination, [ bytes |-> d[source].bytes, mtime |-> now ]))
    ELSE IF mode = "link"
    THEN IF destination \in DOMAIN d
         THEN Raised(d, "FileExistsError", "destination")
         ELSE Returned(Put(d, destination, d[source]))
    ELSE IF source = destination THEN Returned(d)
    ELSE Returned(Remove(Put(d, destination, d[source]), source))

\* mutant: the destination is never looked at before the transfer
CreateFileBlind(d, source, destination, mode, exist_ok, now) ==
    Transfer(d, source, destination, mode, now)

\* mutant: an existing destination always raises
CreateFileStrict(d, source, destination, mode, exist_ok, now) ==
    IF destination \in DOMAIN d
    THEN Raised(d, "ValueError", "Destination already exists")
    ELSE Transfer(d, source, destination, mode, now)

\* create_file(source, destination, mode, exist_ok) of BEP032NWDataConverter.py
CreateFile(d, source, destination, mode, exist_ok, now) ==
    IF destination \notin DOMAIN d
    THEN Transfer(d, source, destination, mode, now)
    ELSE IF ~exist_ok
    THEN Raised(d, "ValueError", "Destination already exists")
    ELSE IF source \notin DOMAIN d
    THEN Raised(d, "FileNotFoundError", "source")
    ELSE IF ~Cmp(d[source], d[destination])
    THEN Raised(d, "ValueError", "File content differs")
    ELSE Transfer(Remove(d, destination), source, destination, mode, now)

\* convert_file(source, destination, output_format).  In
\* BEP032NWDataConverter.py the function is defined in the class body and
\* called by its bare name: the call resolves only if the star import of
\* bep032tools.generator.utils supplies the name (resolved), and the body
\* creates an empty destination.  In BEP032PatchClampNWConverter.py it is
\* a module function that reads the source and writes the converted block.
ConvertFile(variant, d, source, destination, fmt, now, resolved) ==
    IF variant = "NWData" /\ ~resolved
    THEN Raised(d, "NameError", "convert_file")
    ELSE IF fmt # << "nwb" >>
    THEN Raised(d, "ValueError", "Invalid output data format")
    ELSE IF Parent(destination) \notin DOMAIN d
    THEN Raised(d, "FileNotFoundError", "destination")
    ELSE IF variant = "NWData"
    THEN Returned(Put(d, destination, [ bytes |-> << >>, mtime |-> now ]))
    ELSE IF ~IsFile(d, source)
    THEN Raised(d, "FileNotFoundError", "source")
    ELSE Returned(Put(d, destination,
                      [ bytes |-> << "nwb" >> \o d[source].bytes, mtime |-> now ]))

----------------------------------------------------------------------------
(* organize_data_files *)

\* the (key, files) pairs of self.data.items() unrolled in iteration order:
\* key, 0-based position i, number n of files under the key, file
ItemsOf(u, key) ==
    [ k \in 1..Len(u.data[key]) |->
        [ key |-> key, i |-> k - 1, n |-> Len(u.data[key]), file |-> u.data[key][k] ] ]
Items(u) == Flatten([ k \in 1..Len(u.keys) |-> ItemsOf(u, u.keys[k]) ])

\* the stem organize_data_files uses: self.filename_stem in
\* BEP032NWDataConverter.py, a local value in BEP032PatchClampNWConverter.py
FilenameStem(u) ==
    IF u.variant = "NWData" THEN u.filename_stem
    ELSE << "sub-" >> \o u.sub_id \o << "_", "ses-" >> \o u.ses_id

\* new_filename of one file
NewFilename(u, item, mode, fmt) ==
    LET key == IF item.key # << >> THEN << "_" >> \o item.key ELSE << >>
        split == IF item.n > 1 THEN << "_", "split-", ToString(item.i) >> ELSE << >>
    IN  IF mode = "convert"
        THEN FilenameStem(u) \o key \o << "." \o fmt[1] >>
        ELSE FilenameStem(u) \o key \o split \o << "_", "ephys" >> \o Suffix(item.file)

\* destination = data_folder / new_filename
Destination(u, item, mode, fmt) == Join(get_data_folder(u), NewFilename(u, item, mode, fmt))

\* the body of the inner loop: convert_file or create_file on one file
PlaceFile(d, u, item, mode, fmt, e) ==
    LET destination == Destination(u, item, mode, fmt)
    IN  IF mode = "convert"
        THEN ConvertFile(u.variant, d, item.file, destination, fmt, e.now, e.resolved)
        ELSE IF u.variant = "NWData"
        THEN CreateFile(d, item.file, destination, mode, TRUE, e.now)
        ELSE Transfer(d, item.file, destination, mode, e.now)

RECURSIVE OrganizeFrom(_, _, _, _, _, _, _, _)
\* the loops from the k-th file on; placed logs the calls made so far
OrganizeFrom(d, u, items, k, mode, fmt, e, placed) ==
    IF k > Len(items)
    THEN [ disk |-> d, raised |-> << >>, placed |-> placed ]
    ELSE LET r == PlaceFile(d, u, items[k], mode, fmt, e)
             log == Append(placed, [ key |-> items[k].key, i |-> items[k].i,
                                     n |-> items[k].n, file |-> items[k].file,
                                     destination |-> Destination(u, items[k], mode, fmt) ])
         IN  IF r.raised # << >>
             THEN [ disk |-> r.disk, raised |-> r.raised, placed |-> log ]
             ELSE OrganizeFrom(r.disk, u, items, k + 1, mode, fmt, e, log)

\* mutant: the base directory is not tested first
OrganizeFilesUnchecked(d, u, mode, fmt, e) ==
    OrganizeFrom(d, [ u EXCEPT !.basedir = IF @ = None THEN NoRoot ELSE @,
                               !.filename_stem = IF @ = None THEN StemOf(u) ELSE @ ],
                 Items(u), 1, mode, fmt, e, << >>)

\* organize_data_files(mode, output_format)
OrganizeFiles(d, u, mode, fmt, e) ==
    IF u.basedir = None
    THEN [ disk |-> d, raised |-> << "ValueError", "No base directory set." >>,
           placed |-> << >> ]
    ELSE IF u.variant = "NWData" /\ u.filename_stem = None
    THEN [ disk |-> d, raised |-> << "ValueError", "No filename stem set." >>,
           placed |-> << >> ]
    ELSE OrganizeFrom(d, u, Items(u), 1, mode, fmt, e, << >>)

----------------------------------------------------------------------------
(* The state machine of a dataset unit and its callers *)

\* no write_segment_info run takes part in the history of a dataset unit
NoRun ==
    /\ config = Cfg("run", NoEntries, NoEntries)
    /\ experiment = FlatAttrs
    /\ current_dir = << >>
    /\ fs = [ p \in {} |-> << >> ]
    /\ segment_keys = << >>
    /\ segment_dict = [ k \in {} |-> << >> ]
    /\ converter = NoConverter
    /\ pc = "done"
    /\ idx = 1
    /\ err = << >>
    /\ copies = << >>
    /\ conversions = << >>
    /\ tmp_count = 0

InitOrganize ==
    /\ NoRun
    /\ unit \in { NewUnit(v) : v \in Variants }
    /\ disk = InitialDisk
    /\ registered = << >>
    /\ last = NoCall
    /\ calls = NoCalls
    /\ job = NoJob

\* session.register_data_files(*files, task=task, run=run)
Register ==
    /\ Len(registered) < MaxRegister
    /\ \E files \in FileLists, task \in Tasks, run \in Runs :
         LET r == RegisterFiles(unit, files, task, run)
         IN  /\ unit' = r.unit
             /\ registered' = IF r.raised = << >>
                              THEN Append(registered,
                                          [ files |-> files, task |-> task, run |-> run ])
                              ELSE registered
             /\ last' = [ NoCall EXCEPT !.op = "register_data_files",
                                        !.raised = r.raised ]
    /\ UNCHANGED << disk, calls, job, mvars >>

\* session.basedir = path
SetBasedir ==
    /\ \E path \in { BidsRoot, NoRoot } :
         IF path \notin DOMAIN disk
         THEN /\ last' = [ NoCall EXCEPT !.op = "basedir",
                             !.raised = << "ValueError", "Base directory does not exist" >> ]
              /\ unit' = unit
         ELSE /\ last' = [ NoCall EXCEPT !.op = "basedir" ]
              /\ unit' = [ unit EXCEPT !.basedir = path ]
    /\ UNCHANGED << disk, registered, calls, job, mvars >>

\* session.generate_directory_structure()
GenerateDirectoryStructure ==
    /\ IF unit.basedir = None
       THEN /\ last' = [ NoCall EXCEPT !.op = "generate_directory_structure",
                           !.raised = << "ValueError", "No base directory set." >> ]
            /\ UNCHANGED << unit, disk >>
       ELSE /\ last' = [ NoCall EXCEPT !.op = "generate_directory_structure" ]
            /\ disk' = Put(disk, get_data_folder(unit), Dir)
            /\ unit' = [ unit EXCEPT !.filename_stem = StemOf(unit) ]
    /\ UNCHANGED << registered, calls, job, mvars >>

\* the call before was op in that mode, and returned
LastReturned(op, mode) == last.op = op /\ last.mode = mode /\ last.raised = << >>

\* session.organize_data_files(mode=mode, output_format=fmt)
Organize ==
    /\ calls.organize < MaxOrganize
    /\ \E mode \in Modes :
       \E fmt \in IF mode = "convert" THEN OutputFormats ELSE { << "nwb" >> } :
       \E resolved \in IF mode = "convert" /\ unit.variant = "NWData"
                        THEN BOOLEAN ELSE { TRUE } :
         LET r == OrganizeFiles(disk, unit, mode, fmt,
                                [ now |-> Later, resolved |-> resolved ])
         IN  /\ disk' = r.disk
             /\ calls' = [ calls EXCEPT !.organize = @ + 1,
                                        !.other = IF mode \in { "link", "copy" }
                                                  THEN @ ELSE 1 ]
             /\ last' = [ NoCall EXCEPT !.op = "organize_data_files", !.mode = mode,
                                        !.fmt = fmt, !.raised = r.raised,
                                        !.placed = r.placed,
                                        !.again = LastReturned("organize_data_files",
                                                               mode) ]
    /\ UNCHANGED << unit, registered, job, mvars >>

\* the path of a file that no call of the unit writes
Elsewhere == << "/", "raw", "/", "new", ".abf" >>

\* create_file(source, destination, mode, exist_ok) called on its own
CreateFileCall ==
    /\ calls.create < MaxCreate
    /\ \E source \in Recordings, destination \in Recordings \cup { Elsewhere },
          mode \in (Modes \ { "convert" }) \cup { BadMode }, exist_ok \in BOOLEAN, now \in Stamps :
         /\ source # destination
         /\ LET r == CreateFile(disk, source, destination, mode, exist_ok, now)
            IN  /\ disk' = r.disk
                /\ last' = [ NoCall EXCEPT !.op = "create_file", !.mode = mode,
                                           !.source = source,
                                           !.destination = destination,
                                           !.exist_ok = exist_ok, !.raised = r.raised ]
    /\ calls' = [ calls EXCEPT !.create = @ + 1 ]
    /\ UNCHANGED << unit, registered, job, mvars >>

NextOrganize ==
    \/ Register
    \/ SetBasedir
    \/ GenerateDirectoryStructure
    \/ Organize

SpecOrganize == InitOrganize /\ [][NextOrganize]_vars

\* the histories of create_file calls on the recordings
InitCreateFile ==
    /\ NoRun
    /\ unit = NewUnit("NWData")
    /\ disk = InitialDisk
    /\ registered = << >>
    /\ last = NoCall
    /\ calls = NoCalls
    /\ job = NoJob

NextCreateFile == CreateFileCall

SpecCreateFile == InitCreateFile /\ [][NextCreateFile]_vars

----------------------------------------------------------------------------
(* Properties of the dataset unit *)

\* the composite key of a register_data_files call, by cases
ExpectedKey(task, run) ==
    CASE task # None /\ run # None -> << "task-" >> \o task \o << "_", "run-" >> \o run
      [] task # None /\ run = None -> << "task-" >> \o task
      [] task = None /\ run # None -> << "run-" >> \o run
      [] OTHER -> << >>

\* the files of the register calls made for key, concatenated in call order
FilesRegisteredFor(key) ==
    Flatten([ k \in 1..Len(registered) |->
                IF ExpectedKey(registered[k].task, registered[k].run) = key
                THEN registered[k].files ELSE << >> ])

\* C15: the composite key is 'task-{task}' then 'run-{run}', each only when
\* given, joined by '_' when both are; after any sequence of register calls
\* the keys stored are those of the calls made, in the order of their first
\* call, and the list under a key is the concatenation, in call order, of
\* the files of all calls for that key.
C15_RegisterAppendsInOrder ==
    /\ DOMAIN unit.data = Range(unit.keys)
    /\ DOMAIN unit.data
         = { ExpectedKey(registered[k].task, registered[k].run) :
               k \in 1..Len(registered) }
    /\ \A key \in DOMAIN unit.data : unit.data[key] = FilesRegisteredFor(key)

\* two calls with task and run given, the second appending to the first
C15_Witness ==
    /\ Len(registered) = 2
    /\ registered[1].task # None /\ registered[1].run # None
    /\ registered[2].task = registered[1].task
    /\ registered[2].run = registered[1].run
    /\ registered[1].files # registered[2].files
    /\ unit.keys = << << "task-", "rest", "_", "run-", "01" >> >>
    /\ unit.data[unit.keys[1]] = registered[1].files \o registered[2].files

\* the last call was organize_data_files, it returned and placed files
Organized ==
    last.op = "organize_data_files" /\ last.raised = << >> /\ last.placed # << >>

\* the file name carries the suffix '_split-{i}'
HasSplit(name, i) ==
    \E k \in 1..(Len(name) - 2) : SubSeq(name, k, k + 2) = << "_", "split-", ToString(i) >>

\* C16: in organize_data_files the destination of the only file of a key has
\* no split suffix, and the destination of the file at 0-based position i of
\* a key that holds several files has the suffix '_split-{i}'.
C16_SplitSuffixByPosition ==
    Organized =>
      \A k \in 1..Len(last.placed) :
        LET p == last.placed[k]
            name == Basename(p.destination)
        IN  IF p.n = 1 THEN "split-" \notin Range(name) ELSE HasSplit(name, p.i)

\* the file name the claims give a placement of organize_data_files
ExpectedName(p, mode, fmt) ==
    LET stem == IF unit.ephys_type = "ice" THEN << "sub-" >> \o unit.sub_id
                ELSE << "sub-" >> \o unit.sub_id \o << "_", "ses-" >> \o unit.ses_id
        key == IF p.key # << >> THEN << "_" >> \o p.key ELSE << >>
        split == IF p.n > 1 THEN << "_", "split-", ToString(p.i) >> ELSE << >>
        suffix == IF mode = "convert" THEN << "." \o fmt[1] >> ELSE Suffix(p.file)
    IN  stem \o key \o split \o << "_", "ephys" >> \o suffix

\* C17: in every mode the destination file name is stem, '_' + key when the
\* key is not empty, split suffix, modality postfix, suffix; the files of one
\* organize_data_files call get different destinations, in convert mode too.
C17_NameInEveryMode ==
    Organized =>
      /\ \A k \in 1..Len(last.placed) :
           Basename(last.placed[k].destination)
             = ExpectedName(last.placed[k], last.mode, last.fmt)
      /\ \A j, k \in 1..Len(last.placed) :
           j # k => last.placed[j].destination # last.placed[k].destination

\* a step that is a create_file call on a destination that exists
CreateOnExisting == last'.op = "create_file" /\ last'.destination \in DOMAIN disk

\* the source and the destination of that call hold the same bytes
SameBytes ==
    /\ last'.source \in DOMAIN disk
    /\ disk[last'.source].bytes = disk[last'.destination].bytes

\* C18: create_file on an existing destination fails and leaves the
\* destination as it was when exist_ok is false, and when exist_ok is true and
\* the bytes of source and destination differ; when exist_ok is true and the
\* bytes are identical the destination is removed and created again with
\* the requested mode.
C18_ExistingDestination ==
    [][ CreateOnExisting =>
          IF ~last'.exist_ok \/ ~SameBytes
          THEN last'.raised # << >> /\ disk' = disk
          ELSE last'.mode \in { "copy", "link", "move" } =>
                 /\ last'.raised = << >>
                 /\ last'.destination \in DOMAIN disk'
                 /\ disk'[last'.destination].bytes = disk[last'.source].bytes
                 /\ last'.mode = "move" <=> last'.source \notin DOMAIN disk' ]_vars

\* a step that is an organize_data_files call in mode link or copy
OrganizeLinkOrCopy ==
    last'.op = "organize_data_files" /\ last'.mode \in { "link", "copy" }

\* the call before was organize_data_files in that same mode, and returned
AfterOrganizeLinkOrCopy ==
    last.op = "organize_data_files" /\ last.mode = last'.mode /\ last.raised = << >>

\* C19: on a unit of BEP032NWDataConverter.py, an organize_data_files call in
\* mode link or copy that directly follows one in the same mode that returned,
\* the source files being unchanged, does not raise,
\* leaves self.data as it was and leaves the same files, with the same
\* bytes, as the first call did.
C19_OrganizeTwice ==
    [][ (unit.variant = "NWData" /\ AfterOrganizeLinkOrCopy /\ OrganizeLinkOrCopy) =>
          /\ last'.raised = << >>
          /\ unit'.data = unit.data /\ unit'.keys = unit.keys
          /\ DOMAIN disk' = DOMAIN disk
          /\ \A p \in DOMAIN disk : disk'[p].bytes = disk[p].bytes
          /\ \A k \in 1..Len(last'.placed) :
               last'.placed[k].destination \in DOMAIN disk ]_vars

\* a second organize_data_files call in a row, on a key with several files
\* and a key with one file, all in place
C19_Witness ==
    /\ unit.variant = "NWData"
    /\ last.op = "organize_data_files" /\ last.mode \in { "link", "copy" }
    /\ last.raised = << >>
    /\ last.again
    /\ Len(last.placed) = 3 /\ Len(unit.keys) = 2
    /\ \A k \in 1..Len(last.placed) :
         /\ last.placed[k].destination \in DOMAIN disk
         /\ disk[last.placed[k].destination].bytes = disk[last.placed[k].file].bytes

\* C20: organize_data_files on a unit whose basedir is not set raises
\* 'No base directory set.' before any file is created, linked, moved or
\* converted, and leaves self.data as it was.
C20_NoBasedirNoFile ==
    [][ (last'.op = "organize_data_files" /\ unit.basedir = None) =>
          /\ last'.raised = << "ValueError", "No base directory set." >>
          /\ last'.placed = << >>
          /\ disk' = disk
          /\ unit' = unit ]_vars

\* an organize_data_files call that failed on a unit with registered files
\* and no basedir
C20_Witness ==
    /\ last.op = "organize_data_files"
    /\ unit.basedir = None
    /\ unit.keys # << >>
    /\ last.raised = << "ValueError", "No base directory set." >>
    /\ disk = InitialDisk

----------------------------------------------------------------------------
(* Further properties of get_segment_details and write_segment_info *)

\* C21: the mapping get_segment_details returns has its keys in the order of
\* segment_list and holds one bundle for every declared key; while the loop
\* runs, the keys stored so far are the declared keys already passed, in order.
C21_KeysInDeclaredOrder ==
    /\ Resolved =>
         /\ segment_keys = config.segment_list
         /\ DOMAIN segment_dict = Range(config.segment_list)
    /\ pc = "resolve" =>
         /\ segment_keys = SubSeq(config.segment_list, 1, idx - 1)
         /\ DOMAIN segment_dict = Range(segment_keys)

\* a mapping returned for two declared keys
C21_Witness ==
    /\ Resolved
    /\ Len(segment_keys) = 2
    /\ segment_keys[1] = SegKey(1) /\ segment_keys[2] = SegKey(2)
    /\ DOMAIN segment_dict = { SegKey(1), SegKey(2) }

C23_IdMirrored ==
    \A k \in DOMAIN segment_dict :
      /\ { K_id, K_segment_id, segment_id_attr(config) } \subseteq DOMAIN segment_dict[k]
      /\ segment_dict[k][segment_id_attr(config)] = segment_dict[k][K_id]
      /\ segment_dict[k][K_segment_id] = segment_dict[k][K_id]

\* a returned mapping whose bundles carry their id under 'chunk_id' and
\* under 'segment_id'
C23_Witness ==
    /\ Resolved
    /\ config.segment_type = "chunk"
    /\ \A k \in DOMAIN segment_dict :
         /\ segment_dict[k][K_id] # None
         /\ segment_dict[k][<< "chunk", "_", "id" >>] = segment_dict[k][K_id]
         /\ segment_dict[k][K_segment_id] = segment_dict[k][K_id]
    /\ Len(segment_keys) = 2

\* nothing of the materialization has happened
NothingWritten ==
    /\ fs = InitialFiles
    /\ copies = << >> /\ conversions = << >>
    /\ converter = NoConverter /\ tmp_count = 0
    /\ \A k \in DOMAIN segment_dict : K_final_path \notin DOMAIN segment_dict[k]

\* C27: as long as get_segment_details runs, and when it has failed, no path
\* has been rendered, no directory or file written and no converter made, for
\* any segment; every step of the materialization is taken with the bundles
\* of all the declared keys resolved.
C27_ResolveBeforeWrite ==
    /\ [](pc = "resolve" => NothingWritten)
    /\ [][ (pc' \in { "copy", "dispatch", "convert" } \/ fs' # fs
              \/ copies' # copies \/ conversions' # conversions)
             => Range(config.segment_list) \subseteq DOMAIN segment_dict ]_vars

\* the last segment has no id, the first one was resolved with a raw file to
\* copy, and nothing was written
C27_Witness ==
    /\ pc = "resolve" /\ idx = Len(config.segment_list) /\ idx > 1
    /\ err = << "ValueError", MissingIdMessage(config.segment_list[idx]) >>
    /\ HasRawData(segment_dict[config.segment_list[1]])
    /\ segment_dict[config.segment_list[1]][K_raw_data_path] \in DOMAIN fs
    /\ NothingWritten

----------------------------------------------------------------------------
(* Further properties of create_file and organize_data_files *)

\* a step that is a create_file call with a mode create_file does not know
CreateWithBadMode ==
    last'.op = "create_file" /\ last'.mode \notin { "copy", "link", "move" }

\* C25: create_file called with a mode other than 'copy', 'link' or 'move'
\* raises and leaves the file system as it was; a destination that existed
\* before the call exists afterwards, with exist_ok true and a content equal
\* to the source's as well.
C25_BadModeLeavesDisk ==
    [][ CreateWithBadMode =>
          /\ last'.raised # << >>
          /\ disk' = disk
          /\ last'.destination \in DOMAIN disk => last'.destination \in DOMAIN disk' ]_vars

\* the regular files of the data folder of the unit
DataFolderFiles ==
    { p \in DOMAIN disk : IsFile(disk, p) /\ Parent(p) = get_data_folder(unit) }

\* the destinations organize_data_files computes from the current registration
RegisteredDestinations ==
    { Destination(unit, Items(unit)[k], last.mode, last.fmt) :
        k \in 1..Len(Items(unit)) }

\* C26: on a unit of BEP032NWDataConverter.py, after an organize_data_files
\* call in mode link or copy that returned, all organize_data_files calls so
\* far having been in mode link or copy, the files of the data folder are
\* exactly the destinations computed from the current registration; no file
\* without split suffix is left from an earlier organize.
C26_FolderMatchesRegistration ==
    (/\ unit.variant = "NWData"
     /\ last.op = "organize_data_files" /\ last.raised = << >>
     /\ last.mode \in { "link", "copy" }
     /\ calls.other = 0)
      => DataFolderFiles = RegisteredDestinations

----------------------------------------------------------------------------
(* ConvertedfSData used on its own: constructor and convert_bids_data calls *)

\* number of ConvertedfSData(...) calls in one history
MaxConstruct == 2
\* number of convert_bids_data calls in one history
MaxConvert == 2

\* metadata documents of the caller: one named '.yml', one not
SuppliedYml == << "/", "meta", "/", "subject", ".yml" >>
SuppliedTxt == << "/", "meta", "/", "subject", ".txt" >>

\* the files before the first call
CallerFiles ==
    [ p \in { RawFile(1, ".edf"), SuppliedYml, SuppliedTxt } |-> Bytes(p) ]

\* path_to_store_convertfile of the calls
StoreDir == << "/", "bids", "/", "out" >>

\* no write_segment_info run and no dataset unit takes part
InitConverter ==
    /\ config = Cfg("run", NoEntries, NoEntries)
    /\ experiment = FlatAttrs
    /\ current_dir = StoreDir
    /\ fs = CallerFiles
    /\ segment_keys = << >>
    /\ segment_dict = [ k \in {} |-> << >> ]
    /\ converter = NoConverter
    /\ pc = "done"
    /\ idx = 1
    /\ err = << >>
    /\ copies = << >>
    /\ conversions = << >>
    /\ tmp_count = 0
    /\ NoUnit

\* ConvertedfSData(raw_data, metadata_yml_file, path_to_store_convertfile,
\* experiment), the result assigned when the constructor returns
Construct ==
    /\ calls.construct < MaxConstruct
    /\ \E metadata \in { None, SuppliedYml, SuppliedTxt }, has_exp \in BOOLEAN :
         LET r == NewConverter(RawFile(1, ".edf"), metadata, StoreDir, has_exp,
                               tmp_count + 1, << >>)
         IN  /\ last' = [ NoCall EXCEPT !.op = "ConvertedfSData",
                                        !.metadata_yml_file = metadata,
                                        !.experiment = has_exp,
                                        !.raised = r.raised ]
             /\ IF r.raised # << >>
                THEN UNCHANGED << converter, fs, tmp_count >>
                ELSE /\ converter' = r.obj
                     /\ IF r.wrote_temp
                        THEN /\ fs' = Put(fs, r.obj.temp_yml_file, YamlOf(<< >>))
                             /\ tmp_count' = tmp_count + 1
                        ELSE UNCHANGED << fs, tmp_count >>
    /\ calls' = [ calls EXCEPT !.construct = @ + 1 ]
    /\ UNCHANGED << config, experiment, current_dir, segment_keys, segment_dict,
                    pc, idx, err, copies, conversions >>
    /\ UNCHANGED << unit, disk, registered, job >>

\* converter.convert_bids_data() on the instance built last
ConvertBidsData ==
    /\ calls.convert < MaxConvert
    /\ converter # NoConverter
    /\ \E raises \in BOOLEAN, names \in { {} } \cup { { n } : n \in OutputNames } :
         LET moved == MoveOutputs(fs, converter.path_to_store_convertfile, names)
             temp  == DocumentToRemove(converter)
             gone  == ~raises /\ temp # None /\ temp \notin DOMAIN moved
         IN  /\ conversions' = Append(conversions,
                    [ segment |-> converter.made_for, converter |-> converter,
                      returned |-> ~raises /\ ~gone ])
             /\ fs' = IF raises \/ temp = None \/ gone THEN moved
                      ELSE Remove(moved, temp)
             /\ last' = [ NoCall EXCEPT !.op = "convert_bids_data",
                            !.raised = IF raises
                                       THEN << "ConversionError", converter.raw_data >>
                                       ELSE IF gone
                                       THEN << "FileNotFoundError", temp >>
                                       ELSE << >> ]
    /\ calls' = [ calls EXCEPT !.convert = @ + 1 ]
    /\ UNCHANGED << config, experiment, current_dir, segment_keys, segment_dict,
                    converter, pc, idx, err, copies, tmp_count >>
    /\ UNCHANGED << unit, disk, registered, job >>

NextConverter == Construct \/ ConvertBidsData

SpecConverter == InitConverter /\ [][NextConverter]_vars

\* a step that is a ConvertedfSData(...) call that returned
Constructed == last'.op = "ConvertedfSData" /\ last'.raised = << >>

\* C24: the constructor writes a temporary metadata document only when the
\* caller supplies no metadata_yml_file; a supplied metadata_yml_file is the
\* document of the instance, the one convert_bids_data hands to edf2bids.
C24_TempOnlyWithoutMetadata ==
    [][ Constructed =>
          /\ (tmp_count' # tmp_count) <=> (last'.metadata_yml_file = None)
          /\ last'.metadata_yml_file # None =>
               converter'.metadata_yml_file = last'.metadata_yml_file ]_vars

\* C30: a metadata document of the caller is never deleted or modified: it
\* exists with its content after every constructor and convert_bids_data call,
\* whether the call returned or raised.
C30_SuppliedDocumentKept ==
    /\ \A p \in { SuppliedYml, SuppliedTxt } : p \in DOMAIN fs /\ fs[p] = CallerFiles[p]
    /\ \A k \in 1..Len(conversions) :
         conversions[k].converter.temp_yml_file = None =>
           conversions[k].converter.metadata_yml_file \in DOMAIN fs

\* a convert_bids_data call that returned and one that raised, both on a
\* converter built from the caller's document
C30_Witness ==
    /\ Len(conversions) = 2
    /\ \A k \in 1..2 :
         /\ conversions[k].converter.metadata_yml_file = SuppliedYml
         /\ conversions[k].converter.temp_yml_file = None
    /\ conversions[1].returned /\ ~conversions[2].returned
    /\ SuppliedYml \in DOMAIN fs

----------------------------------------------------------------------------
(* generate_metadata_file_participants of BEP032NWDataConverter.py *)

\* number of generate_metadata_file_participants calls in one history
MaxParticipants == 4

\* output.with_suffix('.tsv') for output = basedir / 'participants'
ParticipantsFile(basedir) == Join(basedir, << "participants", ".tsv" >>)

\* the row of participant_df: participant_id, species, age, sex, birthday
ParticipantRow(u) ==
    << << "sub-" >> \o u.sub_id, << "rattus norvegicus" >>,
       u.md.participants_md.age, << "M" >>, << "2001-01-01T00:00:00" >> >>

\* generate_metadata_file_participants(output): the file after the call,
\* written with its header when it does not exist (mode 'w'), the row
\* appended without header when it does (mode 'a').  The content of the
\* file is the sequence of its lines.
generate_metadata_file_participants(d, u, file, now) ==
    IF file \notin DOMAIN d
    THEN Put(d, file,
             [ bytes |-> << << << "participant_id" >>, << "species" >>, << "age" >>,
                               << "sex" >>, << "birthday" >> >>,
                            ParticipantRow(u) >>,
               mtime |-> now ])
    ELSE Put(d, file, [ bytes |-> Append(d[file].bytes, ParticipantRow(u)),
                        mtime |-> now ])

\* a dataset root without participants file
InitParticipants ==
    /\ NoRun
    /\ unit = NewUnit("NWData")
    /\ disk = [ p \in { BidsRoot } |-> Dir ]
    /\ registered = << >>
    /\ last = NoCall
    /\ calls = NoCalls
    /\ job = NoJob

\* session.md = metadata; session.generate_metadata_file_participants(
\* basedir / 'participants') on a session of subject sub
GenerateParticipants ==
    /\ calls.participants < MaxParticipants
    /\ \E sub \in { << "m01" >>, << "m02" >> }, age \in { << "p20" >>, << "p30" >> } :
         LET u == Put([ NewUnit("NWData") EXCEPT !.sub_id = sub, !.basedir = BidsRoot ],
                      "md", [ participants_md |-> [ age |-> age, date |-> << "d1" >> ] ])
         IN  /\ unit' = u
             /\ disk' = generate_metadata_file_participants(
                            disk, u, ParticipantsFile(u.basedir), Later)
    /\ last' = [ NoCall EXCEPT !.op = "generate_metadata_file_participants" ]
    /\ calls' = [ calls EXCEPT !.participants = @ + 1 ]
    /\ UNCHANGED << registered, job, mvars >>

NextParticipants == GenerateParticipants

SpecParticipants == InitParticipants /\ [][NextParticipants]_vars

\* the rows of the participants file, its header left out
ParticipantRows ==
    IF ParticipantsFile(BidsRoot) \in DOMAIN disk
    THEN Tail(disk[ParticipantsFile(BidsRoot)].bytes) ELSE << >>

\* C29: after any sequence of generate_metadata_file_participants calls on
\* one participants file, no two rows of the file have the same
\* participant_id.
C29_OneRowPerParticipant ==
    \A j, k \in 1..Len(ParticipantRows) :
      j # k => ParticipantRows[j][1] # ParticipantRows[k][1]

----------------------------------------------------------------------------
(* convert_patchclamp2bids of BEP032NWDataConverter.py *)

\* number of recording-day directories under raw_data_dir
MaxDays == 3
\* number of '.abf' files of a recording day
MaxDayFiles == 2

\* the names os.listdir(raw_data_dir) returns
Days == { << "day" \o ToString(n) >> : n \in 1..MaxDays }

\* os.path.join(raw_data_dir, day), raw_data_dir being '/raw'
DayDir(day) == << "/", "raw", "/" >> \o day

\* the k-th '.abf' file of a recording day
DayFile(day, k) == DayDir(day) \o << "/", day[1] \o "_c" \o ToString(k), ".abf" >>

\* the files under raw_data_dir and the dataset root, x giving the number of
\* excel files of each recording day, which lie in raw_data_dir/day/day
SessionsDisk(x) ==
    LET dirs == { << "/", "raw" >>, BidsRoot } \cup { DayDir(d) : d \in Days }
        abf  == { DayFile(d, k) : d \in Days, k \in 1..MaxDayFiles }
        xls  == UNION { { DayDir(d) \o << "/" >> \o d
                              \o << "/", "md" \o ToString(k), ".xls" >> :
                            k \in 1..x[d] } : d \in Days }
    IN  [ p \in dirs \cup abf \cup xls |->
            IF p \in dirs THEN Dir
            ELSE [ bytes |-> << "bytes of", p[Len(p) - 1] >>, mtime |-> 1 ] ]

\* glob.glob(os.path.join(raw_data_dir, day, '*.abf')), in name order
GlobAbf(d, day) ==
    SelectSeq([ k \in 1..MaxDayFiles |-> DayFile(day, k) ], LAMBDA p : p \in DOMAIN d)

RECURSIVE RegisterEach(_, _, _)
\* the loop over data_files: register_data_files(file, run=run_id), run_id
\* being the file name without its extension
RegisterEach(u, files, k) ==
    IF k > Len(files) THEN [ raised |-> << >>, unit |-> u ]
    ELSE LET name == Basename(files[k])
             r == RegisterFiles(u, << files[k] >>, None, SubSeq(name, 1, Len(name) - 1))
         IN  IF r.raised # << >> THEN r ELSE RegisterEach(r.unit, files, k + 1)

\* the recording days with none, one or two excel files, listed by
\* os.listdir in any order
InitSessions ==
    /\ NoRun
    /\ unit = NewUnit("NWData")
    /\ disk \in { SessionsDisk(x) : x \in [ Days -> { 0, 1, 2 } ] }
    /\ registered = << >>
    /\ last = NoCall
    /\ calls = NoCalls
    /\ job \in { [ pc |-> "select", recording_days_list |-> q, k |-> 1,
                   current_day |-> None, ses_ids_list |-> << >>,
                   sub_ids_list |-> << >>, metadata_file_list |-> << >>,
                   current_ind |-> 1, sessions |-> << >> ] :
                 q \in { l \in [ 1..MaxDays -> Days ] : Range(l) = Days } }

\* one pass of the loop over recording_days_list (lines 626-638)
SelectDay ==
    /\ job.pc = "select"
    /\ LET day == job.recording_days_list[job.k]
           xls_list == { p \in DOMAIN disk :
                           p[Len(p)] = ".xls" /\ Parent(p) = DayDir(day) \o << "/" >> \o day }
           one == Cardinality(xls_list) = 1
           ses == IF one THEN Append(job.ses_ids_list, day) ELSE job.ses_ids_list
       IN  job' = [ job EXCEPT
                      !.current_day = day,
                      !.ses_ids_list = ses,
                      !.sub_ids_list = IF one THEN Append(@, day) ELSE @,
                      !.metadata_file_list =
                          IF one THEN Append(@, CHOOSE p \in xls_list : TRUE) ELSE @,
                      !.k = IF job.k < Len(job.recording_days_list) THEN @ + 1 ELSE @,
                      !.pc = IF job.k < Len(job.recording_days_list) THEN "select"
                             ELSE IF ses = << >> THEN "done" ELSE "session" ]
    /\ UNCHANGED << unit, disk, registered, last, calls, mvars >>

\* one pass of the loop over the selected sessions (lines 643-668): the
\* session object, its basedir and directory, the registration of the
\* globbed files, organize_data_files(mode='link'), and the participants
\* file that generate_all_metadata_files writes
RunSession ==
    /\ job.pc = "session"
    /\ LET ses == job.ses_ids_list[job.current_ind]
           sub == job.sub_ids_list[job.current_ind]
           u1  == [ NewUnit("NWData") EXCEPT !.sub_id = sub, !.ses_id = ses,
                                             !.basedir = BidsRoot ]
           u2  == [ u1 EXCEPT !.filename_stem = StemOf(u1) ]
           d1  == Put(disk, get_data_folder(u1), Dir)
           data_files == GlobAbf(d1, job.current_day)
           reg == RegisterEach(u2, data_files, 1)
           org == OrganizeFiles(d1, reg.unit, "link", << "nwb" >>,
                                [ now |-> Later, resolved |-> TRUE ])
           u3  == Put(reg.unit, "md",
                      [ participants_md |-> [ age |-> << "p20" >>, date |-> ses ] ])
           ok  == reg.raised = << >> /\ org.raised = << >>
       IN  /\ unit' = u3
           /\ disk' = IF ok
                      THEN generate_metadata_file_participants(
                               org.disk, u3, ParticipantsFile(BidsRoot), Later)
                      ELSE org.disk
           /\ registered' = registered \o
                              [ k \in 1..Len(data_files) |->
                                  [ files |-> << data_files[k] >>, task |-> None,
                                    run |-> reg.unit.keys[k] ] ]
           /\ last' = [ NoCall EXCEPT !.op = "organize_data_files", !.mode = "link",
                                      !.raised = IF reg.raised # << >> THEN reg.raised
                                                 ELSE org.raised,
                                      !.placed = org.placed ]
           /\ job' = [ job EXCEPT
                         !.sessions = Append(@, [ ses_id |-> ses, sub_id |-> sub,
                                                  data_files |-> data_files,
                                                  data |-> reg.unit.data ]),
                         !.current_ind = IF ok /\ @ < Len(job.ses_ids_list)
                                         THEN @ + 1 ELSE @,
                         !.pc = IF ~ok THEN "failed"
                                ELSE IF job.current_ind < Len(job.ses_ids_list)
                                THEN "session" ELSE "done" ]
    /\ UNCHANGED << calls, mvars >>

NextSessions == SelectDay \/ RunSession

SpecSessions == InitSessions /\ [][NextSessions]_vars

\* the '.abf' files of the recording-day directory of a session
OwnDayFiles(ses_id) ==
    { p \in DOMAIN disk : p[Len(p)] = ".abf" /\ Parent(p) = DayDir(ses_id) }

\* C28: the data files registered for each selected session are the '.abf'
\* files of that session's own recording-day directory, whatever the order of
\* the listing and the number of selected days.
C28_SessionGetsOwnDay ==
    \A k \in 1..Len(job.sessions) :
      LET s == job.sessions[k]
      IN  /\ Range(s.data_files) = OwnDayFiles(s.ses_id)
          /\ UNION { Range(s.data[key]) : key \in DOMAIN s.data } = OwnDayFiles(s.ses_id)

====
